---- MODULE Spec2Model ----
(***************************************************************************)
(* A model of ptsim.c, a page-table simulator: one array of simulated RAM  *)
(* whose page 0 holds the page-usage table (bytes 0..63) and the process   *)
(* table (bytes 64..), a first-fit page allocator, process creation and    *)
(* teardown, and virtual-to-physical address translation.                  *)
(***************************************************************************)
EXTENDS Integers, Sequences, FiniteSets, TLC

\* ---------------------------------------------------------------- constants
MEM_SIZE == 16384
PAGE_SIZE == 256
PAGE_COUNT == 64
PAGE_SHIFT == 8
\* get_page's "no more pages" sentinel, 0xff
NO_PAGE == 255
\* offset of the process table inside the zero page (mem[64 + proc_num])
PROC_TABLE == 64

\* ------------------------------------------------------------------- bounds
\* Number of commands main() processes in one run.
MaxCmds == 2
\* Number of deallocate_page calls in a run of the allocator alone.
MaxFrees == 1
\* Number of commands in the longer runs of SpecDeep.
MaxDeepCmds == 3

\* Command arguments.  191 is the last process-table slot inside the zero
\* page (mem[255]); 192 is the first one past it (mem[256], in page 1).
ProcNums == {0, 191, 192}
PageCounts == {0, 2, 62}
VirtAddrs == {0, 257}
\* 255 is a byte that names no page and is the index of slot 191.
Values == {0, 5, 255}
\* Offsets sampled inside a page.
Offsets == {0, 1, 127, 255}

\* Arguments of deallocate_page when the allocator is used alone.
FreedPages == {1, 2, 255}

\* --------------------------------------------------------- integer helpers
RECURSIVE BitOr(_, _)
\* C's a | b on non-negative ints
BitOr(a, b) ==
    IF a = 0 THEN b
    ELSE IF b = 0 THEN a
    ELSE (IF a % 2 = 1 \/ b % 2 = 1 THEN 1 ELSE 0) + 2 * BitOr(a \div 2, b \div 2)

RECURSIVE BitAnd(_, _)
\* C's a & b on non-negative ints
BitAnd(a, b) ==
    IF a = 0 \/ b = 0 THEN 0
    ELSE (IF a % 2 = 1 /\ b % 2 = 1 THEN 1 ELSE 0) + 2 * BitAnd(a \div 2, b \div 2)

\* C's a << k and a >> k on non-negative ints
ShiftLeft(a, k) == a * (2 ^ k)
ShiftRight(a, k) == a \div (2 ^ k)

\* ------------------------------------------------------------ simulated RAM
\* unsigned char mem[MEM_SIZE].  mem is held as the function from the indexes
\* of its non-zero bytes to those bytes; every other byte of the array is 0.
\* Rd and Wr take the flat index the C code uses.
InBounds(addr) == addr >= 0 /\ addr < MEM_SIZE
Rd(m, addr) == IF addr \in DOMAIN m THEN m[addr] ELSE 0
\* a store into an unsigned char keeps the low 8 bits
Wr(m, addr, v) ==
    IF v % 256 = 0
    THEN [a \in DOMAIN m \ {addr} |-> m[a]] @@ <<>>
    ELSE (addr :> (v % 256)) @@ m

\* initialize_mem without its mem[0] = 1
initialize_mem_unmarked == Wr(<<>>, 0, 0)

\* initialize_mem: memset(mem, 0, MEM_SIZE); mem[0] = 1
initialize_mem == Wr(<<>>, 0, 1)

get_address(page, offset) == BitOr(ShiftLeft(page, PAGE_SHIFT), offset)

RECURSIVE get_page_scan(_, _)
get_page_scan(m, i) ==
    IF i < PAGE_COUNT
    THEN IF Rd(m, i) = 0
         THEN [mem |-> Wr(m, i, 1), page |-> i]
         ELSE get_page_scan(m, i + 1)
    ELSE [mem |-> m, page |-> NO_PAGE]

\* get_page with its scan started at page 1
get_page_from_one(m) == get_page_scan(m, 1)

\* get_page: the memory after the call and the value returned
get_page(m) == get_page_scan(m, 0)

deallocate_page(m, page) == Wr(m, page, 0)

\* one pass of new_process's data-page loop.  st is the loop's state: the
\* memory, the loop variable vpage, the OOM message printed if any, the
\* page-table page and the data pages allocated so far.
new_process_step(st) ==
    LET g == get_page(st.mem)
        new_page == g.page
    IN  IF new_page = NO_PAGE
        THEN [st EXCEPT !.mem = g.mem, !.oom = "data"]
        ELSE [st EXCEPT !.mem = Wr(g.mem, get_address(st.table, st.vpage), new_page),
                        !.vpage = st.vpage + 1,
                        !.pages = Append(st.pages, new_page)]

RECURSIVE new_process_loop(_, _)
\* the passes from st.vpage up to hi - 1 in ascending order, none after the
\* one that returned on OOM (the range is split in halves, so that the
\* evaluation nests no deeper than the logarithm of its length)
new_process_loop(st, hi) ==
    IF st.oom # "none" \/ st.vpage >= hi THEN st
    ELSE IF hi = st.vpage + 1 THEN new_process_step(st)
    ELSE new_process_loop(new_process_loop(st, (st.vpage + hi) \div 2), hi)

\* new_process with the process-table store moved before the OOM test
new_process_store_first(m, proc_num, page_count) ==
    LET g == get_page(m)
        page_table == g.page
        stored == Wr(g.mem, PROC_TABLE + proc_num, page_table)
    IN  IF page_table = NO_PAGE
        THEN [mem |-> stored, vpage |-> 0, oom |-> "table", table |-> NO_PAGE,
              pages |-> <<>>]
        ELSE new_process_loop([mem |-> stored, vpage |-> 0, oom |-> "none",
                               table |-> page_table, pages |-> <<>>],
                              page_count)

\* new_process: the memory after the call, which OOM message was printed,
\* and the pages get_page returned (the table, then the data pages).
\* Every index used is inside mem for the arguments in ProcNums, PageCounts.
new_process(m, proc_num, page_count) ==
    LET g == get_page(m)
        page_table == g.page
    IN  IF page_table = NO_PAGE
        THEN [mem |-> g.mem, vpage |-> 0, oom |-> "table", table |-> NO_PAGE,
              pages |-> <<>>]
        ELSE new_process_loop([mem |-> Wr(g.mem, PROC_TABLE + proc_num, page_table),
                               vpage |-> 0, oom |-> "none", table |-> page_table,
                               pages |-> <<>>],
                              page_count)

get_page_table(m, proc_num) == Rd(m, proc_num + PROC_TABLE)

\* one pass of kill_process's loop.  st is the loop's state: the memory and
\* the loop variable i.
kill_process_step(st, page_table) ==
    LET ptr_addr == get_address(page_table, st.i)
    IN  [mem |-> IF Rd(st.mem, ptr_addr) # 0
                 THEN deallocate_page(st.mem, Rd(st.mem, ptr_addr))
                 ELSE st.mem,
         i |-> st.i + 1]

RECURSIVE kill_process_loop(_, _, _)
\* the passes from st.i up to hi - 1 in ascending order (split in halves)
kill_process_loop(st, page_table, hi) ==
    IF st.i >= hi THEN st
    ELSE IF hi = st.i + 1 THEN kill_process_step(st, page_table)
    ELSE kill_process_loop(kill_process_loop(st, page_table, (st.i + hi) \div 2),
                           page_table, hi)

\* kill_process.  ok is FALSE when the page-table pointer read from the
\* process table names a page outside mem: the loop's first read is then
\* out of bounds, before anything is written.
kill_process(m, proc_num) ==
    LET page_table == get_page_table(m, proc_num)
    IN  IF InBounds(get_address(page_table, PAGE_COUNT - 1))
        THEN [ok |-> TRUE,
              mem |-> deallocate_page(kill_process_loop([mem |-> m, i |-> 0], page_table,
                                                       PAGE_COUNT).mem,
                                     page_table)]
        ELSE [ok |-> FALSE, mem |-> m]

\* get_physical_addr with the offset mask one bit short
get_physical_addr_short_mask(m, proc_num, virt_addr) ==
    LET virt_page == ShiftRight(virt_addr, 8)
        offset == BitAnd(virt_addr, 127)
        page_table == get_page_table(m, proc_num)
        page_table_page == get_address(page_table, virt_page)
    IN  IF InBounds(page_table_page)
        THEN [ok |-> TRUE, addr |-> BitOr(ShiftLeft(Rd(m, page_table_page), 8), offset)]
        ELSE [ok |-> FALSE, addr |-> 0]

\* get_physical_addr.  ok is FALSE when the page-table entry it reads lies
\* outside mem.
get_physical_addr(m, proc_num, virt_addr) ==
    LET virt_page == ShiftRight(virt_addr, 8)
        offset == BitAnd(virt_addr, 255)
        page_table == get_page_table(m, proc_num)
        page_table_page == get_address(page_table, virt_page)
    IN  IF InBounds(page_table_page)
        THEN [ok |-> TRUE, addr |-> BitOr(ShiftLeft(Rd(m, page_table_page), 8), offset)]
        ELSE [ok |-> FALSE, addr |-> 0]

\* store_value: ok is FALSE when the translation or the store is out of bounds
store_value(m, proc_num, virt_addr, value) ==
    LET t == get_physical_addr(m, proc_num, virt_addr)
    IN  IF t.ok /\ InBounds(t.addr)
        THEN [ok |-> TRUE, mem |-> Wr(m, t.addr, value), addr |-> t.addr]
        ELSE [ok |-> FALSE, mem |-> m, addr |-> t.addr]

\* load_value: the value it prints
load_value(m, proc_num, virt_addr) ==
    LET t == get_physical_addr(m, proc_num, virt_addr)
    IN  IF t.ok /\ InBounds(t.addr)
        THEN [ok |-> TRUE, value |-> Rd(m, t.addr), addr |-> t.addr]
        ELSE [ok |-> FALSE, value |-> 0, addr |-> t.addr]

\* -------------------------------------------------------------------- state
VARIABLES
    mem,      \* the simulated RAM
    status,   \* "running", or "undefined" after an out-of-bounds access
    ncmds,    \* commands processed so far
    last,     \* the last command, its arguments and what it reported
    procs,    \* history: per process number, what its last np allocated
    disc,     \* history: every np so far was on a slot with no live process
              \* and every kp on a live process
    run,      \* allocator alone: the values get_page returned, in call order
    nfrees,   \* allocator alone: the number of deallocate_page calls
    limit,    \* the number of commands on the command line
    discio,   \* history: every sb and lb so far was by a live process at a
              \* virtual page its np mapped
    leaked    \* history: the pages the first np allocated, when the second
              \* command was an np on the same slot and neither ran out of
              \* memory

vars == <<mem, status, ncmds, last, procs, disc, run, nfrees, limit, discio, leaked>>

NoProc == [live |-> FALSE, table |-> NO_PAGE, pages |-> <<>>]
NoCmd == [op |-> "init", proc |-> 0, arg |-> 0, val |-> 0, res |-> "", was |-> NoProc]
\* the pages an np allocated: the page table and the data pages
OwnedBy(pr) == {pr.table} \cup {pr.pages[k] : k \in 1..Len(pr.pages)}
\* process p is live and its np mapped the virtual page of address a
Mapped(p, a) == procs[p].live /\ a \div PAGE_SIZE < Len(procs[p].pages)

\* main: initialize_mem(), before the first of n commands
InitFor(n) ==
    /\ mem = initialize_mem
    /\ status = "running"
    /\ ncmds = 0
    /\ last = NoCmd
    /\ procs = [p \in ProcNums |-> NoProc]
    /\ disc = TRUE
    /\ run = <<>>
    /\ nfrees = 0
    /\ limit = n
    /\ discio = TRUE
    /\ leaked = {}

Init == InitFor(MaxCmds)

\* The behaviour after an out-of-bounds access to mem is undefined: the
\* model records that it happened and follows the run no further.
CanStep == status = "running" /\ ncmds < limit

\* main: "np" proc_num pages
NewProcess(p, n) ==
    /\ CanStep
    /\ LET r == new_process(mem, p, n)
       IN  /\ mem' = r.mem
           /\ last' = [op |-> "np", proc |-> p, arg |-> n, val |-> 0, res |-> r.oom,
                       was |-> procs[p]]
           /\ procs' = IF r.oom = "table" THEN procs
                       ELSE [procs EXCEPT ![p] = [live |-> TRUE, table |-> r.table,
                                                  pages |-> r.pages]]
           /\ leaked' = IF ncmds = 1 /\ procs[p].live /\ r.oom = "none"
                        THEN OwnedBy(procs[p]) ELSE leaked
    /\ disc' = (disc /\ ~procs[p].live)
    /\ ncmds' = ncmds + 1
    /\ UNCHANGED <<status, run, nfrees, limit, discio>>

\* main: "kp" proc_num
KillProcess(p) ==
    /\ CanStep
    /\ LET r == kill_process(mem, p)
       IN  /\ mem' = r.mem
           /\ status' = IF r.ok THEN "running" ELSE "undefined"
           /\ last' = [op |-> "kp", proc |-> p, arg |-> 0, val |-> 0,
                       res |-> IF r.ok THEN "ok" ELSE "oob", was |-> procs[p]]
           /\ procs' = IF r.ok THEN [procs EXCEPT ![p].live = FALSE] ELSE procs
    /\ disc' = (disc /\ procs[p].live)
    /\ ncmds' = ncmds + 1
    /\ UNCHANGED <<run, nfrees, limit, discio, leaked>>

\* main: "sb" proc_num virt_addr value
StoreValue(p, a, x) ==
    /\ CanStep
    /\ LET r == store_value(mem, p, a, x)
       IN  /\ mem' = r.mem
           /\ status' = IF r.ok THEN "running" ELSE "undefined"
           /\ last' = [op |-> "sb", proc |-> p, arg |-> a, val |-> x,
                       res |-> IF r.ok THEN "ok" ELSE "oob", was |-> procs[p]]
    /\ discio' = (discio /\ Mapped(p, a))
    /\ ncmds' = ncmds + 1
    /\ UNCHANGED <<procs, disc, run, nfrees, limit, leaked>>

\* main: "lb" proc_num virt_addr
LoadValue(p, a) ==
    /\ CanStep
    /\ LET r == load_value(mem, p, a)
       IN  /\ status' = IF r.ok THEN "running" ELSE "undefined"
           /\ last' = [op |-> "lb", proc |-> p, arg |-> a, val |-> r.value,
                       res |-> IF r.ok THEN "ok" ELSE "oob", was |-> procs[p]]
    /\ discio' = (discio /\ Mapped(p, a))
    /\ ncmds' = ncmds + 1
    /\ UNCHANGED <<mem, procs, disc, run, nfrees, limit, leaked>>

\* main's command loop
Next ==
    \/ \E p \in ProcNums, n \in PageCounts : NewProcess(p, n)
    \/ \E p \in ProcNums : KillProcess(p)
    \/ \E p \in ProcNums, a \in VirtAddrs, x \in Values : StoreValue(p, a, x)
    \/ \E p \in ProcNums, a \in VirtAddrs : LoadValue(p, a)

Spec == Init /\ [][Next]_vars

\* the same program given one command more
InitDeep == InitFor(MaxDeepCmds)
SpecDeep == InitDeep /\ [][Next]_vars

\* ------------------------------------------------------ the allocator alone
\* get_page and deallocate_page called directly on freshly initialized
\* memory, as a client of the allocator would.

\* a call of get_page; PAGE_COUNT + 1 calls are followed
AllocatePage ==
    /\ Len(run) < PAGE_COUNT + 1
    /\ LET g == get_page(mem)
       IN  /\ mem' = g.mem
           /\ run' = Append(run, g.page)
    /\ UNCHANGED <<status, ncmds, last, procs, disc, nfrees, limit, discio, leaked>>

\* a call of deallocate_page
DeallocatePage(page) ==
    /\ nfrees < MaxFrees
    /\ mem' = deallocate_page(mem, page)
    /\ nfrees' = nfrees + 1
    /\ UNCHANGED <<status, ncmds, last, procs, disc, run, limit, discio, leaked>>

AllocNext ==
    \/ AllocatePage
    \/ \E page \in FreedPages : DeallocatePage(page)

SpecAlloc == Init /\ [][AllocNext]_vars

\* --------------------------------------------------------------- properties
\* the usage table: the pages whose usage byte is 0
FreeSet(m) == {i \in 0..PAGE_COUNT - 1 : Rd(m, i) = 0}
\* the indexes at which two memories differ
Diff(m1, m2) == {a \in DOMAIN m1 \cup DOMAIN m2 : Rd(m1, a) # Rd(m2, a)}
\* the last command was an np that got its page table
Created == last.op = "np" /\ last.res # "table"

\* C1: right after new_process(p, n) completed without OOM, for every virtual
\* page v < n and offset o, get_physical_addr(p, v*PAGE_SIZE + o) is
\* phys_page * 256 + o, where phys_page is the byte at offset v of the page
\* recorded in process-table slot p; the offset changes only the low 8 bits.
C1_Translation ==
    (last.op = "np" /\ last.res = "none") =>
        \A v \in 0..last.arg - 1 : \A o \in Offsets :
            LET t == get_physical_addr(mem, last.proc, v * PAGE_SIZE + o)
                slot == Rd(mem, PROC_TABLE + last.proc)
                phys_page == Rd(mem, slot * PAGE_SIZE + v)
            IN  /\ t.ok
                /\ t.addr = phys_page * 256 + o
                /\ t.addr \div 256 = phys_page
                /\ t.addr % 256 = o

\* C1's case: np 2 pages into fresh memory, virtual page 1 translates to
\* physical page 3
C1_Witness ==
    /\ last.op = "np" /\ last.res = "none" /\ last.arg = 2
    /\ get_physical_addr(mem, last.proc, PAGE_SIZE + 255).addr = 3 * 256 + 255

\* C2: after store_value(p, a, x) (any p, created or not), load_value(p, a)
\* reads x.
C2_StoreLoadRoundTrip ==
    (last.op = "sb" /\ last.res = "ok") =>
        LET r == load_value(mem, last.proc, last.arg)
        IN  r.ok /\ r.value = last.val

\* C3 as claimed: in a run of get_page calls on fresh memory each of the
\* first PAGE_COUNT calls returns a page in [0, PAGE_COUNT) distinct from
\* the earlier ones, and call PAGE_COUNT + 1 returns 0xff.
C3_AllocatorAsClaimed ==
    nfrees = 0 =>
        \A k \in 1..Len(run) :
            /\ k <= PAGE_COUNT =>
                  /\ run[k] \in 0..PAGE_COUNT - 1
                  /\ \A j \in 1..k - 1 : run[j] # run[k]
            /\ k = PAGE_COUNT + 1 => run[k] = NO_PAGE

\* C3, amended: each of the first PAGE_COUNT - 1 calls returns a page in
\* [1, PAGE_COUNT) distinct from the earlier ones (page 0 is in use from
\* initialize_mem on), and every call from the PAGE_COUNT-th on returns 0xff.
C3_Allocator ==
    nfrees = 0 =>
        \A k \in 1..Len(run) :
            /\ k <= PAGE_COUNT - 1 =>
                  /\ run[k] \in 1..PAGE_COUNT - 1
                  /\ \A j \in 1..k - 1 : run[j] # run[k]
            /\ k >= PAGE_COUNT => run[k] = NO_PAGE

\* C3's case: PAGE_COUNT + 1 calls in a row
C3_Witness == nfrees = 0 /\ Len(run) = PAGE_COUNT + 1

\* C4: after kill_process(p) on a process that np created and no kp killed
\* yet, the page-table page and the data pages that np allocated for p all
\* have usage byte 0.
C4_Reclamation ==
    (last.op = "kp" /\ last.res = "ok" /\ last.was.live) =>
        /\ Rd(mem, last.was.table) = 0
        /\ \A k \in 1..Len(last.was.pages) : Rd(mem, last.was.pages[k]) = 0

\* C5: the usage byte of page 0 is never 0.
C5_PageZeroUsed == status = "running" => Rd(mem, 0) # 0

\* C6: a new_process called while no page is free prints the page-table OOM
\* and leaves all of memory as it was.
C6_OomNoOp ==
    [][(last'.op = "np" /\ ncmds' = ncmds + 1 /\ FreeSet(mem) = {}) =>
           (last'.res = "table" /\ mem' = mem /\ procs' = procs)]_vars

\* C6's case: an np that found no page for its page table
C6_Witness == last.op = "np" /\ last.res = "table" /\ FreeSet(mem) = {}

\* C7: get_page returns the smallest page whose usage byte is 0, sets that
\* byte to 1 and changes no other byte; with no such page it returns 0xff
\* and changes nothing.
C7_FirstFit ==
    LET g == get_page(mem)
    IN  IF FreeSet(mem) = {}
        THEN g.page = NO_PAGE /\ g.mem = mem
        ELSE /\ g.page \in FreeSet(mem)
             /\ \A i \in FreeSet(mem) : g.page <= i
             /\ Rd(g.mem, g.page) = 1
             /\ Diff(g.mem, mem) = {g.page}

\* C7's case: a free page below a used one, and page 0 itself free
C7_Witness ==
    /\ \E i \in FreeSet(mem) : \E j \in i + 1..PAGE_COUNT - 1 : j \notin FreeSet(mem)
    /\ 0 \in FreeSet(mem)

\* C8: deallocate_page(get_page()) leaves memory as it was before the two
\* calls, and the next get_page returns the same value again; also when
\* get_page returned 0xff.
C8_DeallocRoundTrip ==
    LET g == get_page(mem)
        back == deallocate_page(g.mem, g.page)
    IN  back = mem /\ get_page(back).page = g.page

\* C9: on fresh memory new_process(p, n), n <= PAGE_COUNT - 2, takes page 1
\* as p's page table, maps virtual page v to page v + 2 and marks exactly
\* pages 0..n+1 used; kill_process(p) right after it leaves only page 0 used.
C9_CreateKillScenario ==
    /\ (ncmds = 1 /\ last.op = "np" /\ last.arg <= PAGE_COUNT - 2) =>
          /\ last.res = "none"
          /\ get_page_table(mem, last.proc) = 1
          /\ \A v \in 0..last.arg - 1 : Rd(mem, 1 * PAGE_SIZE + v) = v + 2
          /\ FreeSet(mem) = last.arg + 2..PAGE_COUNT - 1
    /\ (ncmds = 2 /\ last.op = "kp" /\ last.was.live
          /\ Len(last.was.pages) <= PAGE_COUNT - 2) =>
          /\ last.res = "ok"
          /\ FreeSet(mem) = 1..PAGE_COUNT - 1

\* C10: when every np so far was on a slot with no live process and every kp
\* on a live process, right after new_process(p, n) the entries of the page
\* table it allocated are 0 at every virtual page v with n <= v < PAGE_COUNT.
C10_UnmappedZero ==
    (disc /\ Created) =>
        \A v \in last.arg..PAGE_COUNT - 1 :
            Rd(mem, procs[last.proc].table * PAGE_SIZE + v) = 0

\* C11: when new_process(p, n) gets its page table and exactly k < n further
\* pages are free, it stops after k data pages: slot p holds the new page
\* table, virtual pages 0..k-1 are mapped to k distinct pages that were free
\* before the call and are marked used after it, nothing is rolled back, and
\* afterwards every page in [0, PAGE_COUNT) is marked used.
C11_PartialCreation ==
    [][(ncmds' = ncmds + 1 /\ last'.op = "np" /\ last'.res = "data") =>
          LET p == last'.proc
              table == procs'[p].table
              pages == procs'[p].pages
              k == Len(pages)
          IN  /\ k < last'.arg
              /\ Cardinality(FreeSet(mem)) = k + 1
              /\ table \in FreeSet(mem)
              /\ get_page_table(mem', p) = table
              /\ \A v \in 0..k - 1 :
                    /\ Rd(mem', table * PAGE_SIZE + v) = pages[v + 1]
                    /\ pages[v + 1] \in FreeSet(mem) \ {table}
                    /\ \A w \in 0..k - 1 : pages[w + 1] = pages[v + 1] => w = v
              /\ FreeSet(mem') = {}]_vars

\* C12: in every reachable state kill_process(p) on a live process p changes
\* only usage-table bytes (mem[0..PAGE_COUNT)), each from non-zero to 0: slot
\* p keeps the freed page-table page number, and no other slot, page-table
\* entry or data byte changes.
C12_KillFrame ==
    [][(ncmds' = ncmds + 1 /\ last'.op = "kp" /\ procs[last'.proc].live) =>
          /\ status' = "running"
          /\ get_page_table(mem', last'.proc) = get_page_table(mem, last'.proc)
          /\ \A a \in Diff(mem, mem') :
                a \in 0..PAGE_COUNT - 1 /\ Rd(mem, a) # 0 /\ Rd(mem', a) = 0]_vars

\* C13: from initialized memory, new_process(p, n1) followed by
\* new_process(p, n2) on the same slot, both without OOM, leaves slot p
\* holding the second page table; a kill_process(p) next frees exactly the
\* second call's page table and data pages; and the first call's page table
\* and n1 data pages stay marked used whatever np and kp commands follow.
C13_RecreationLeaks ==
    leaked # {} =>
        /\ ncmds = 2 =>
              get_page_table(mem, last.proc) = procs[last.proc].table
        /\ (ncmds = 3 /\ last.op = "kp" /\ last.was.live) =>
              FreeSet(mem) = (0..PAGE_COUNT - 1) \ ({0} \cup leaked)
        /\ \A page \in leaked : Rd(mem, page) # 0

\* the processes created by an np and not killed since
Live == {p \in ProcNums : procs[p].live}
\* every np so far was on a slot with no live process, every kp on a live
\* process, every sb and lb by a live process at a virtual page its np mapped
Disciplined == disc /\ discio

\* C14: under disciplined use the page sets owned by distinct live processes
\* are pairwise disjoint, none contains page 0 and every owned page is marked
\* used; hence kill_process(p) frees no page owned by another live process
\* and get_page returns no page owned by a live process.
C14_Ownership ==
    Disciplined =>
        /\ \A p \in Live :
              /\ 0 \notin OwnedBy(procs[p])
              /\ \A page \in OwnedBy(procs[p]) : Rd(mem, page) # 0
              /\ \A q \in Live \ {p} : OwnedBy(procs[p]) \cap OwnedBy(procs[q]) = {}
              /\ get_page(mem).page \notin OwnedBy(procs[p])
              /\ \A q \in Live \ {p} : \A page \in OwnedBy(procs[q]) :
                    Rd(kill_process(mem, p).mem, page) # 0

\* the data pages of a process, without its page table
DataPages(pr) == {pr.pages[k] : k \in 1..Len(pr.pages)}

\* C15: under disciplined use store_value(p, a, x) writes one byte, located
\* in a data page owned by p (the byte changes unless it already held x), and
\* changes nothing else: no usage byte, no process-table slot, no byte of a
\* page table and no byte of another live process's data page.
C15_StoreIsolation ==
    [][(ncmds' = ncmds + 1 /\ last'.op = "sb" /\ Disciplined') =>
          LET p == last'.proc
              t == store_value(mem, p, last'.arg, last'.val)
          IN  /\ t.ok
              /\ Diff(mem, mem') \subseteq {t.addr}
              /\ t.addr \div PAGE_SIZE \in DataPages(procs[p])
              /\ t.addr \div PAGE_SIZE # 0
              /\ \A q \in Live :
                    /\ t.addr \div PAGE_SIZE # procs[q].table
                    /\ q # p => t.addr \div PAGE_SIZE \notin DataPages(procs[q])]_vars

\* C16: under disciplined use the page-table entry get_physical_addr reads
\* for a store or a load is in [1, PAGE_COUNT), so the address accessed is
\* within [PAGE_SIZE, MEM_SIZE).
C16_InBounds ==
    [][(ncmds' = ncmds + 1 /\ last'.op \in {"sb", "lb"} /\ Disciplined') =>
          LET virt_page == ShiftRight(last'.arg, PAGE_SHIFT)
              page_table == get_page_table(mem, last'.proc)
              phys_page == Rd(mem, get_address(page_table, virt_page))
              t == get_physical_addr(mem, last'.proc, last'.arg)
          IN  /\ phys_page \in 1..PAGE_COUNT - 1
              /\ t.ok
              /\ t.addr \in PAGE_SIZE..MEM_SIZE - 1]_vars

\* C17: new_process(proc_num, page_count), for every proc_num and page_count,
\* writes only (a) the usage bytes of the pages it allocates, (b) the
\* process-table byte at 64 + proc_num, which lies inside page 0, and (c)
\* entries 0..k-1 of the page table it allocated, k the number of data pages
\* it got; it changes no byte of a page owned by another live process and no
\* other process's slot.
C17_NewProcessFrame ==
    [][(ncmds' = ncmds + 1 /\ last'.op = "np" /\ last'.res # "table") =>
          LET p == last'.proc
              new == procs'[p]
              entries == {get_address(new.table, v) : v \in 0..Len(new.pages) - 1}
          IN  /\ PROC_TABLE + p < PAGE_SIZE
              /\ Diff(mem, mem') \subseteq OwnedBy(new) \cup {PROC_TABLE + p} \cup entries
              /\ \A a \in Diff(mem, mem') : \A q \in Live \ {p} :
                    /\ a \div PAGE_SIZE \notin OwnedBy(procs[q])
                    /\ a # PROC_TABLE + q]_vars

====
